---- MODULE Spec2Model ----
(***************************************************************************)
(* The useForm hook of src/src/hooks/useForm.ts as a state machine.        *)
(*                                                                         *)
(* The four pieces of React state (values, errors, touched, isSubmitting)  *)
(* are the store.  Every handler is an async function: the part up to its  *)
(* first await is one step, and each continuation after an await is a      *)
(* later step, so other handlers can run in between.  A handler reads      *)
(* `values` through the closure of the render it was created in; the model *)
(* takes a render to have happened between two handler invocations, so a   *)
(* handler's closure holds the values stored when it is invoked, and keeps *)
(* them (in the pending record) across its awaits.                         *)
(*                                                                         *)
(* JavaScript values are tagged tuples of strings, objects keyed by field  *)
(* are total functions over Fields with a sentinel for a missing key.      *)
(***************************************************************************)
EXTENDS Naturals, Sequences, FiniteSets

\* ------------------------------------------------------------------ bounds

\* asynchronous work that may be in flight at once: field validations a handler
\* awaits plus submit attempts that have not finished
MaxInFlight == 2

\* ------------------------------------------------------------------ values

Fields == {"a", "b"}
\* key order of the initialValues / schema object literal
FieldOrder == <<"a", "b">>

Null == <<"null">>
Undefined == <<"undefined">>
\* the key is not in the object at all
Missing == <<"missing">>
Str(s) == <<"string", s>>
Bool(b) == <<"boolean", IF b THEN "true" ELSE "false">>
Num(s) == <<"number", s>>
FileRef(f) == <<"file", f>>
FileArray(fs) == <<"array">> \o fs

\* errors / touched slots: the key is absent, or holds undefined, or a value
Absent == "<absent>"
Undef == "<undefined>"
NoErrors == [f \in Fields |-> Absent]
NoTouched == [f \in Fields |-> Absent]
Keys(m) == {f \in Fields : m[f] # Absent}

\* the initialValues object handed to the hook
initialValues == [a |-> Str(""), b |-> Str("x")]

\* ------------------------------------------------------- value normalizer

Kinds == {"text", "checkbox", "file", "date", "number"}
FileLists == {<<>>, <<"f1">>, <<"f1", "f2">>}
NoFiles == <<"nofiles">>

\* what the DOM delivers for an input of each type: e.target.{type, value, checked, files}.
\* files is null for every input that is not a file input, and a FileList
\* (possibly empty) for a file input.
EventsOf(kind) ==
    CASE kind = "text" -> {[type |-> "text", value |-> v, checked |-> FALSE, files |-> NoFiles] : v \in {"", "x"}}
      [] kind = "checkbox" -> {[type |-> "checkbox", value |-> "on", checked |-> c, files |-> NoFiles] : c \in BOOLEAN}
      [] kind = "file" -> {[type |-> "file", value |-> "", checked |-> FALSE, files |-> fl] : fl \in FileLists}
      [] kind = "date" -> {[type |-> "date", value |-> v, checked |-> FALSE, files |-> NoFiles] : v \in {"", "2024-01-15"}}
      [] kind = "number" -> {[type |-> "number", value |-> v, checked |-> FALSE, files |-> NoFiles] : v \in {"", "7"}}

\* new Date(value).toISOString() for a date-only string (parsed as UTC midnight)
ToISOString(value) == value \o "T00:00:00.000Z"

\* Number(value) for the strings a number input delivers
ToNumber(value) == IF value \in {"7"} THEN value ELSE "NaN"

\* the switch of handleChange: the stored value for a change event
NormalizeFile(files) ==
    IF files # NoFiles /\ Len(files) = 1 THEN FileRef(files[1])
    ELSE IF files # NoFiles THEN FileArray(files)
    ELSE Null

Normalize(ev) ==
    CASE ev.type = "file" -> NormalizeFile(ev.files)
      [] ev.type = "checkbox" -> Bool(ev.checked)
      [] ev.type = "date" -> IF ev.value # "" THEN Str(ToISOString(ev.value)) ELSE Null
      [] ev.type = "number" -> IF ev.value = "" THEN Null ELSE Num(ToNumber(ev.value))
      [] OTHER -> Str(ev.value)

\* ------------------------------------------------------ validator shapes

\* validationSchema: absent, a yup Schema, a ZodSchema, a function, or a
\* function that fails to compute
SchemaKinds == {"none", "yup", "zod", "fn", "fnThrows"}

\* the rules of the schema: every field is required, as in the example form
RequiredMsg(f) == f \o " is required"
IsEmptyValue(v) == v \in {Missing, Undefined, Null, Str("")}

\* an object holding only the key `field`
SingleBag(field, value) == [f \in Fields |-> IF f = field THEN value ELSE Missing]
\* { ...vals, [field]: value }
MergedBag(vals, field, value) == [vals EXCEPT ![field] = value]

\* what a validator call throws: nothing, or an error object
NoThrow == [type |-> "none", message |-> "", issues |-> <<>>]
Thrown(type, message, issues) == [type |-> type, message |-> message, issues |-> issues]
\* yup's ValidationError and zod's ZodError are both subclasses of Error
InstanceOfError(err) == err.type \in {"Error", "ValidationError", "ZodError"}

\* the (path, message) issues of the schema over a bag, in key order; zod
\* reports a key that is not there with its own "Required" message
RECURSIVE IssuesFrom(_, _, _)
IssuesFrom(i, bag, zod) ==
    IF i > Len(FieldOrder) THEN <<>>
    ELSE LET f == FieldOrder[i]
             here == IF zod /\ bag[f] \in {Missing, Undefined}
                       THEN <<[path |-> f, message |-> "Required"]>>
                     ELSE IF IsEmptyValue(bag[f])
                       THEN <<[path |-> f, message |-> RequiredMsg(f)]>>
                     ELSE <<>>
         IN here \o IssuesFrom(i + 1, bag, zod)

\* ZodError.message: the issue list serialised into one string
RECURSIVE Aggregate(_)
Aggregate(issues) ==
    IF issues = <<>> THEN ""
    ELSE "{" \o issues[1].path \o ": " \o issues[1].message \o "}" \o Aggregate(Tail(issues))

\* yup: schema.validateAt(path, bag) checks the rule at path against bag[path]
YupValidateAt(path, bag) ==
    IF IsEmptyValue(bag[path])
    THEN Thrown("ValidationError", RequiredMsg(path), <<[path |-> path, message |-> RequiredMsg(path)]>>)
    ELSE NoThrow

\* yup: schema.validate(bag, { abortEarly: false }) collects every failure in error.inner
YupValidate(bag) ==
    LET inner == IssuesFrom(1, bag, FALSE)
    IN IF inner = <<>> THEN NoThrow
       ELSE Thrown("ValidationError", IF Len(inner) = 1 THEN inner[1].message ELSE "2 errors occurred", inner)

\* zod: schema.parseAsync(bag) parses the whole object
ZodParseAsync(bag) ==
    LET issues == IssuesFrom(1, bag, TRUE)
    IN IF issues = <<>> THEN NoThrow
       ELSE Thrown("ZodError", Aggregate(issues), issues)

\* a function validator: the FormErrors of a bag
FnErrors(bag) == [f \in Fields |-> IF IsEmptyValue(bag[f]) THEN RequiredMsg(f) ELSE Absent]
FnCrash == Thrown("Error", "validator crashed", <<>>)

\* issues.find(issue => issue.path.includes(field))?.message || "Invalid value"
RECURSIVE FindIssue(_, _)
FindIssue(issues, field) ==
    IF issues = <<>> THEN "Invalid value"
    ELSE IF issues[1].path = field THEN issues[1].message
    ELSE FindIssue(Tail(issues), field)

\* the catch block of validateField
CatchField(err, field) ==
    IF err.type = "ValidationError" \/ InstanceOfError(err) THEN err.message
    ELSE IF err.type = "ZodError" THEN FindIssue(err.issues, field)
    ELSE "Invalid value"

\* the object validateField hands to the validator (none without a validator)
ValidateFieldBag(kind, vals, field, value) ==
    IF kind = "none" THEN [f \in Fields |-> Missing]
    ELSE IF kind \in {"yup", "zod"} THEN SingleBag(field, value)
    ELSE MergedBag(vals, field, value)

\* validateField(field, value) in a render whose values are vals:
\* undefined or a message
validateField(kind, vals, field, value) ==
    LET bag == ValidateFieldBag(kind, vals, field, value)
        thrown ==
            CASE kind = "yup" -> YupValidateAt(field, bag)
              [] kind = "zod" -> ZodParseAsync(bag)
              [] kind = "fn" -> IF FnErrors(bag)[field] # Absent
                                  THEN Thrown("Error", FnErrors(bag)[field], <<>>)
                                ELSE NoThrow
              [] kind = "fnThrows" -> FnCrash
              [] OTHER -> NoThrow
    IN IF kind = "none" \/ thrown = NoThrow THEN Undef ELSE CatchField(thrown, field)

\* error.inner.reduce / error.issues.reduce: one entry per path, the last issue wins
RECURSIVE ReduceIssues(_, _)
ReduceIssues(issues, acc) ==
    IF issues = <<>> THEN acc
    ELSE ReduceIssues(Tail(issues), [acc EXCEPT ![issues[1].path] = issues[1].message])

\* mutant: the catch block reports a failure it does not recognise on every
\* field, as the catch block of validateField does for its field
validateFormFlagsCrash(kind, vals) ==
    LET thrown ==
            CASE kind = "yup" -> YupValidate(vals)
              [] kind = "zod" -> ZodParseAsync(vals)
              [] kind = "fnThrows" -> FnCrash
              [] OTHER -> NoThrow
    IN IF kind = "none" THEN NoErrors
       ELSE IF thrown = NoThrow THEN (IF kind = "fn" THEN FnErrors(vals) ELSE NoErrors)
       ELSE IF thrown.type = "ValidationError" THEN ReduceIssues(thrown.issues, NoErrors)
       ELSE IF thrown.type = "ZodError" THEN ReduceIssues(thrown.issues, NoErrors)
       ELSE [f \in Fields |-> "Invalid value"]

\* validateForm() in a render whose values are vals: a FormErrors object
validateForm(kind, vals) ==
    LET thrown ==
            CASE kind = "yup" -> YupValidate(vals)
              [] kind = "zod" -> ZodParseAsync(vals)
              [] kind = "fnThrows" -> FnCrash
              [] OTHER -> NoThrow
    IN IF kind = "none" THEN NoErrors
       ELSE IF thrown = NoThrow THEN (IF kind = "fn" THEN FnErrors(vals) ELSE NoErrors)
       ELSE IF thrown.type = "ValidationError" THEN ReduceIssues(thrown.issues, NoErrors)
       ELSE IF thrown.type = "ZodError" THEN ReduceIssues(thrown.issues, NoErrors)
       ELSE NoErrors

\* ------------------------------------------------------------------- state

VARIABLES
    options,       \* the hook's options: validationSchema, validateOnChange, validateOnBlur
    inputType,     \* the input type each field is rendered with (getFieldProps(field, type))
    values,        \* useState(initialValues)
    errors,        \* useState({})
    touched,       \* useState({})
    isSubmitting,  \* useState(false)
    pending,       \* validateField calls awaited by a handler, in the order issued
    attempts,      \* handleSubmit calls that have not finished
    last           \* history: the step just taken

vars == <<options, inputType, values, errors, touched, isSubmitting, pending, attempts, last>>
config == <<options, inputType>>

\* the step just taken, by name; for a step of a submit attempt also the place
\* of the attempt in `attempts` (0 once it has ended), the number of times the
\* attempt has invoked the submit callback, whether its validation returned a
\* non-empty map, and whether the attempt ended with this step
Step(op, att, calls, invalid, ended) ==
    [op |-> op, att |-> att, calls |-> calls, invalid |-> invalid, ended |-> ended]
Plain(op) == Step(op, 0, 0, FALSE, FALSE)

AllOptions == [validationSchema : SchemaKinds, validateOnChange : BOOLEAN, validateOnBlur : BOOLEAN]
\* every validator shape under the default policies, and every policy with one shape
Options == {o \in AllOptions : (o.validateOnChange /\ o.validateOnBlur) \/ o.validationSchema = "yup"}

\* the state after the first render
InitStore ==
    /\ values = initialValues
    /\ errors = NoErrors
    /\ touched = NoTouched
    /\ isSubmitting = FALSE
    /\ pending = <<>>
    /\ attempts = <<>>
    /\ last = Plain("init")

\* a form of text inputs, under every combination of options
Init ==
    /\ options \in Options
    /\ inputType = [f \in Fields |-> "text"]
    /\ InitStore

\* an await may be started: the model holds at most MaxInFlight of them
CanStart == Len(pending) + Len(attempts) < MaxInFlight

RemoveAt(seq, i) == SubSeq(seq, 1, i - 1) \o SubSeq(seq, i + 1, Len(seq))

\* const error = await validateField(name, value): the call is made now, with the
\* values of the current render, and its result is merged when it resolves
Issue(field, value) ==
    [field |-> field,
     bag |-> ValidateFieldBag(options.validationSchema, values, field, value),
     error |-> validateField(options.validationSchema, values, field, value)]

\* ---------------------------------------------------------------- handlers

\* handleChange up to its await
HandleChange(name, ev) ==
    /\ ev \in EventsOf(inputType[name])
    /\ options.validateOnChange => CanStart
    /\ values' = [values EXCEPT ![name] = Normalize(ev)]
    /\ touched' = [touched EXCEPT ![name] = "true"]
    /\ pending' = IF options.validateOnChange
                    THEN Append(pending, Issue(name, Normalize(ev)))
                  ELSE pending
    /\ last' = Plain("other")
    /\ UNCHANGED <<config, errors, isSubmitting, attempts>>

\* mutant: handleBlur validates whatever validateOnBlur says
HandleBlurAlwaysValidates(name) ==
    /\ CanStart
    /\ touched' = [touched EXCEPT ![name] = "true"]
    /\ pending' = Append(pending, Issue(name, values[name]))
    /\ last' = Plain("other")
    /\ UNCHANGED <<config, values, errors, isSubmitting, attempts>>

\* handleBlur up to its await
HandleBlur(name) ==
    /\ options.validateOnBlur => CanStart
    /\ touched' = [touched EXCEPT ![name] = "true"]
    /\ pending' = IF options.validateOnBlur
                    THEN Append(pending, Issue(name, values[name]))
                  ELSE pending
    /\ last' = Plain("other")
    /\ UNCHANGED <<config, values, errors, isSubmitting, attempts>>

\* mutant: setFieldValue also marks the field touched, as handleChange does
SetFieldValueTouches(field, value) ==
    /\ options.validateOnChange => CanStart
    /\ values' = [values EXCEPT ![field] = value]
    /\ touched' = [touched EXCEPT ![field] = "true"]
    /\ pending' = IF options.validateOnChange
                    THEN Append(pending, Issue(field, value))
                  ELSE pending
    /\ last' = Plain("other")
    /\ UNCHANGED <<config, errors, isSubmitting, attempts>>

\* mutant: setFieldValue stores null for an empty string, as the date and
\* number cases of handleChange do
SetFieldValueCoerces(field, value) ==
    /\ options.validateOnChange => CanStart
    /\ values' = [values EXCEPT ![field] = IF value = Str("") THEN Null ELSE value]
    /\ pending' = IF options.validateOnChange
                    THEN Append(pending, Issue(field, value))
                  ELSE pending
    /\ last' = Plain("other")
    /\ UNCHANGED <<config, errors, touched, isSubmitting, attempts>>

\* setFieldValue up to the .then of its validateField call
SetFieldValue(field, value) ==
    /\ options.validateOnChange => CanStart
    /\ values' = [values EXCEPT ![field] = value]
    /\ pending' = IF options.validateOnChange
                    THEN Append(pending, Issue(field, value))
                  ELSE pending
    /\ last' = Plain("other")
    /\ UNCHANGED <<config, errors, touched, isSubmitting, attempts>>

\* mutant: setErrors({ [name]: error }), the other fields' entries are lost
MergeErrorReplaces(i) ==
    /\ i \in 1..Len(pending)
    /\ errors' = [f \in Fields |-> IF f = pending[i].field THEN pending[i].error ELSE Absent]
    /\ pending' = RemoveAt(pending, i)
    /\ last' = Plain("mergeError")
    /\ UNCHANGED <<config, values, touched, isSubmitting, attempts>>

\* mutant: a result is dropped when a validation of the same field issued after
\* it is in flight
MergeErrorUnlessSuperseded(i) ==
    /\ i \in 1..Len(pending)
    /\ errors' = IF \E j \in (i + 1)..Len(pending) : pending[j].field = pending[i].field
                   THEN errors
                 ELSE [errors EXCEPT ![pending[i].field] = pending[i].error]
    /\ pending' = RemoveAt(pending, i)
    /\ last' = Plain("mergeError")
    /\ UNCHANGED <<config, values, touched, isSubmitting, attempts>>

\* the continuation of handleChange, handleBlur and setFieldValue:
\* setErrors(prev => ({ ...prev, [name]: error }))
MergeError(i) ==
    /\ i \in 1..Len(pending)
    /\ errors' = [errors EXCEPT ![pending[i].field] = pending[i].error]
    /\ pending' = RemoveAt(pending, i)
    /\ last' = Plain("mergeError")
    /\ UNCHANGED <<config, values, touched, isSubmitting, attempts>>

SetFieldError(field, error) ==
    /\ errors' = [errors EXCEPT ![field] = error]
    /\ last' = Plain("other")
    /\ UNCHANGED <<config, values, touched, isSubmitting, pending, attempts>>

SetFieldTouched(field, isTouched) ==
    /\ touched' = [touched EXCEPT ![field] = IF isTouched THEN "true" ELSE "false"]
    /\ last' = Plain("other")
    /\ UNCHANGED <<config, values, errors, isSubmitting, pending, attempts>>

\* mutant: resetForm without setTouched({})
ResetStoreKeepsTouched ==
    /\ values' = initialValues
    /\ errors' = NoErrors
    /\ touched' = touched
    /\ isSubmitting' = FALSE

\* the four setters of resetForm
ResetStore ==
    /\ values' = initialValues
    /\ errors' = NoErrors
    /\ touched' = NoTouched
    /\ isSubmitting' = FALSE

\* mutant: resetForm also drops the validations in flight
ResetFormCancels ==
    /\ ResetStore
    /\ pending' = <<>>
    /\ last' = Plain("resetForm")
    /\ UNCHANGED <<config, attempts>>

\* resetForm called by the component
ResetForm ==
    /\ ResetStore
    /\ last' = Plain("resetForm")
    /\ UNCHANGED <<config, pending, attempts>>

\* validateForm() called by the component: it returns the errors and sets nothing
ValidateForm ==
    /\ last' = Plain("other")
    /\ UNCHANGED <<config, values, errors, touched, isSubmitting, pending, attempts>>

\* ------------------------------------------------------------------ submit

\* mutant: only the fields that have an error are marked, the others kept
TouchedWhereErrors == [f \in Fields |-> IF errors[f] \notin {Absent, Undef} THEN "true" ELSE touched[f]]

\* Object.keys(initialValues).reduce((acc, key) => ({ ...acc, [key]: true }), {})
AllTouched == [f \in Fields |-> "true"]

\* the callback has not been called: it has received nothing
NoArgs == [f \in Fields |-> Missing]

\* mutant: the callback is handed the values stored when it is invoked
CallbackValuesLatest(i) == values

\* onSubmit(values as T, ...): `values` is the constant of the render in which
\* this handleSubmit was created, the one validateForm read as well
CallbackValues(i) == attempts[i].vals

\* mutant: a submit is ignored while another one is in progress
HandleSubmitGuarded ==
    /\ CanStart
    /\ isSubmitting' = TRUE
    /\ attempts' = IF isSubmitting THEN attempts
                   ELSE Append(attempts, [pc |-> "validating", vals |-> values,
                                          args |-> NoArgs, calls |-> 0])
    /\ last' = Plain("other")
    /\ UNCHANGED <<config, values, errors, touched, pending>>

\* handleSubmit up to `await validateForm()`
HandleSubmit ==
    /\ CanStart
    /\ isSubmitting' = TRUE
    /\ attempts' = Append(attempts, [pc |-> "validating", vals |-> values,
                                     args |-> NoArgs, calls |-> 0])
    /\ last' = Plain("other")
    /\ UNCHANGED <<config, values, errors, touched, pending>>

\* mutant: the callback is invoked whatever validateForm returned
GateAlwaysOpen(validationErrors) == TRUE

\* Object.keys(validationErrors).length === 0
GateOpen(validationErrors) == Keys(validationErrors) = {}

\* handleSubmit from the result of validateForm to `await onSubmit(...)`, or to
\* its end when the gate is closed
SubmitValidated(i) ==
    /\ i \in 1..Len(attempts)
    /\ attempts[i].pc = "validating"
    /\ LET validationErrors == validateForm(options.validationSchema, attempts[i].vals)
       IN /\ errors' = validationErrors
          /\ touched' = AllTouched
          /\ IF GateOpen(validationErrors)
             THEN /\ attempts' = [attempts EXCEPT ![i] =
                                    [pc |-> "calling", vals |-> @.vals,
                                     args |-> CallbackValues(i), calls |-> @.calls + 1]]
                  /\ isSubmitting' = isSubmitting
                  /\ last' = Step("submitValidated", i, attempts[i].calls + 1,
                                  Keys(validationErrors) # {}, FALSE)
             ELSE /\ attempts' = RemoveAt(attempts, i)
                  /\ isSubmitting' = FALSE
                  /\ last' = Step("submitValidated", 0, attempts[i].calls,
                                  Keys(validationErrors) # {}, TRUE)
    /\ UNCHANGED <<config, values, pending>>

\* the running callback uses the resetForm it was given
CallbackResetForm(i) ==
    /\ i \in 1..Len(attempts)
    /\ attempts[i].pc = "calling"
    /\ ResetStore
    /\ last' = Plain("resetForm")
    /\ UNCHANGED <<config, pending, attempts>>

\* the running callback uses the setSubmitting it was given
CallbackSetSubmitting(i, b) ==
    /\ i \in 1..Len(attempts)
    /\ attempts[i].pc = "calling"
    /\ isSubmitting' = b
    /\ last' = Plain("other")
    /\ UNCHANGED <<config, values, errors, touched, pending, attempts>>

\* the callback completes: handleSubmit runs its last statement
CallbackReturns(i) ==
    /\ i \in 1..Len(attempts)
    /\ attempts[i].pc = "calling"
    /\ isSubmitting' = FALSE
    /\ attempts' = RemoveAt(attempts, i)
    /\ last' = Step("submitReturned", 0, attempts[i].calls, FALSE, TRUE)
    /\ UNCHANGED <<config, values, errors, touched, pending>>

\* the callback throws or rejects: the await rethrows and handleSubmit ends there
CallbackThrows(i) ==
    /\ i \in 1..Len(attempts)
    /\ attempts[i].pc = "calling"
    /\ attempts' = RemoveAt(attempts, i)
    /\ last' = Step("submitThrew", 0, attempts[i].calls, FALSE, TRUE)
    /\ UNCHANGED <<config, values, errors, touched, isSubmitting, pending>>

\* ------------------------------------------------------------ specification

\* values setFieldValue is called with, messages setFieldError is called with,
\* and the field the component calls setFieldError and setFieldTouched on (the
\* two setters treat every field alike; one field keeps the state space small)
DirectValues == {Str(""), Str("x")}
DirectErrors == {"custom error"}
DirectFields == {"a"}

Next ==
    \/ \E name \in Fields, kind \in Kinds : \E ev \in EventsOf(kind) : HandleChange(name, ev)
    \/ \E name \in Fields : HandleBlur(name)
    \/ \E field \in Fields, value \in DirectValues : SetFieldValue(field, value)
    \/ \E i \in 1..MaxInFlight : MergeError(i)
    \/ \E field \in DirectFields, error \in DirectErrors : SetFieldError(field, error)
    \/ \E field \in DirectFields, isTouched \in BOOLEAN : SetFieldTouched(field, isTouched)
    \/ ResetForm
    \/ ValidateForm
    \/ HandleSubmit
    \/ \E i \in 1..MaxInFlight : SubmitValidated(i)
    \/ \E i \in 1..MaxInFlight : CallbackResetForm(i)
    \/ \E i \in 1..MaxInFlight, b \in BOOLEAN : CallbackSetSubmitting(i, b)
    \/ \E i \in 1..MaxInFlight : CallbackReturns(i)
    \/ \E i \in 1..MaxInFlight : CallbackThrows(i)

Spec == Init /\ [][Next]_vars

\* a form whose first field is rendered with each input type in turn
InputTypes == {t \in [Fields -> Kinds] : t["b"] = "text"}
InitInputs ==
    /\ options = [validationSchema |-> "yup", validateOnChange |-> TRUE, validateOnBlur |-> TRUE]
    /\ inputType \in InputTypes
    /\ InitStore

SpecInputs == InitInputs /\ [][Next]_vars

\* ------------------------------------------------------------------ claims

\* a submit attempt has just ended: its last statement ran, or it threw
AttemptEnded == last.ended
\* every declared field is marked touched
EveryFieldTouched == \A f \in Fields : touched[f] = "true"
\* the validators that compute a verdict: at-path, whole-object, function
ComputingShapes == {"yup", "zod", "fn"}
ValidatorShapes == {"yup", "zod", "fn", "fnThrows"}
\* the verdict of the schema's rule for field f on value v
Verdict(f, v) == IF IsEmptyValue(v) THEN RequiredMsg(f) ELSE Undef
\* the validation issued by the step just taken, if it issued one
Issued == pending'[Len(pending')]

\* C1: every submit attempt ends with isSubmitting = false, on every exit path:
\* validation errors, the callback completing, the callback throwing or rejecting.
C1_EndsNotSubmitting == AttemptEnded => isSubmitting = FALSE

\* C2: a submit attempt whose whole-form validation returns a non-empty map never
\* invokes the submit callback, and ends in that step with isSubmitting = false.
C2_InvalidNeverInvokes ==
    (last.op = "submitValidated" /\ last.invalid) =>
        /\ last.calls = 0
        /\ last.ended
        /\ isSubmitting = FALSE
        /\ \A i \in 1..Len(attempts) : attempts[i].pc = "calling" => attempts[i].calls = 1

C2_Witness ==
    /\ last.op = "submitValidated"
    /\ last.invalid
    /\ Keys(errors) # {}
    /\ Len(attempts) = 1

\* C3 as claimed: when the validation of an attempt returns an empty map the
\* callback is invoked exactly once, with the values stored at the moment it is
\* invoked, changes applied while the validation was pending included.
C3_ReceivesCurrentValues ==
    (last.op = "submitValidated" /\ ~last.invalid) =>
        /\ last.calls = 1
        /\ last.att \in 1..Len(attempts)
        /\ attempts[last.att].args = values

\* C3 as amended: the callback is invoked exactly once, with the values of the
\* render in which the attempt started, which are the values its validation
\* read; a change applied while the validation was pending is not in them.
C3_ReceivesSubmittedValues ==
    /\ (last.op = "submitValidated" /\ ~last.invalid) =>
          /\ last.calls = 1
          /\ ~last.ended
          /\ last.att \in 1..Len(attempts)
          /\ attempts[last.att].pc = "calling"
          /\ attempts[last.att].args = attempts[last.att].vals
    /\ last.op \in {"submitReturned", "submitThrew"} => last.calls = 1
    /\ \A i \in 1..Len(attempts) :
          /\ attempts[i].pc = "validating" => attempts[i].calls = 0 /\ attempts[i].args = NoArgs
          /\ attempts[i].pc = "calling" => attempts[i].calls = 1 /\ attempts[i].args = attempts[i].vals

\* a callback is running with values that are no longer the stored ones
C3_Witness ==
    /\ last.op = "submitValidated"
    /\ ~last.invalid
    /\ last.att \in 1..Len(attempts)
    /\ attempts[last.att].args # values
    /\ options.validationSchema = "yup"

\* C4 as claimed: after any submit attempt has resolved every declared field is
\* touched, also when the callback called resetForm or setFieldTouched(f, false)
\* was processed meanwhile.
C4_TouchedWhenResolved == AttemptEnded => EveryFieldTouched

\* C4 as amended: every declared field is touched right after the validation
\* step of a submit attempt, whether validation failed (the attempt ends there)
\* or passed, and stays touched until a resetForm or a setFieldTouched(f, false).
C4_TouchedWhenValidated ==
    /\ [](last.op = "submitValidated" => EveryFieldTouched)
    /\ [][(EveryFieldTouched /\ ~EveryFieldTouched') =>
            \/ last'.op = "resetForm"
            \/ \E f \in Fields : SetFieldTouched(f, FALSE)]_vars

\* the validation passed, the callback ran, and the fields are touched
C4_Witness ==
    /\ last.op = "submitReturned"
    /\ EveryFieldTouched
    /\ values # initialValues

\* C5: right after resetForm, from any state, values are the initial snapshot,
\* errors and touched are empty and isSubmitting is false.
C5_ResetRestores ==
    last.op = "resetForm" =>
        /\ values = initialValues
        /\ errors = NoErrors
        /\ touched = NoTouched
        /\ isSubmitting = FALSE

\* a reset taken while a validation and a submit attempt were in flight
C5_Witness ==
    /\ last.op = "resetForm"
    /\ Len(pending) = 1
    /\ Len(attempts) = 1
    /\ options.validationSchema = "yup"
    /\ pending[1].bag[pending[1].field] # initialValues[pending[1].field]

\* C6: onBlur(f) with validate-on-blur marks f touched and its validation
\* resolves to the validator's verdict on the value stored for f at the blur:
\* the required message for an empty value, no error for a valid one.
C6_BlurVerdict ==
    [][\A f \in Fields :
        (HandleBlur(f) /\ options.validateOnBlur /\ options.validationSchema \in ComputingShapes) =>
            /\ touched'[f] = "true"
            /\ Issued.field = f
            /\ Issued.error = Verdict(f, values[f])]_vars

\* C7: for every validator shape, validateField evaluates the validator over
\* the stored values with the entry of the field replaced by the value, so the
\* other fields are in the bag.
C7_MergedBag ==
    [][(Len(pending') > Len(pending) /\ options.validationSchema \in ValidatorShapes) =>
        /\ Issued.bag = [values EXCEPT ![Issued.field] = values'[Issued.field]]
        /\ \A f \in Fields : Issued.bag[f] # Missing]_vars

\* C8: with a whole-object validator a failing validateField returns the
\* message of the issue for the field, or "Invalid value" when there is none,
\* and never another string.
C8_IssueMessage ==
    options.validationSchema = "zod" =>
        \A i \in 1..Len(pending) :
            \/ pending[i].error = Undef
            \/ pending[i].error = FindIssue(IssuesFrom(1, pending[i].bag, TRUE), pending[i].field)

\* C9: a file change stores the single file for one file, the sequence of
\* files for more than one, and null for none.
C9_FileStored ==
    [][\A name \in Fields : \A ev \in EventsOf("file") :
        HandleChange(name, ev) =>
            values'[name] = IF Len(ev.files) = 1 THEN FileRef(ev.files[1])
                            ELSE IF Len(ev.files) > 1 THEN FileArray(ev.files)
                            ELSE Null]_vars

\* C10: a field becomes touched only by a change or blur of that field, by
\* setFieldTouched(f, true) or by the validation step of a submit attempt;
\* setFieldValue, setFieldError, validateForm, validation completions and
\* operations on other fields never mark it.
C10_OnlyTouchers ==
    [][touched' # touched =>
        /\ last'.op = "other" =>
              /\ ~ \E f \in Fields, v \in DirectValues : SetFieldValue(f, v)
              /\ ~ \E f \in Fields, e \in DirectErrors : SetFieldError(f, e)
              /\ ~ ValidateForm
        /\ ~ \E i \in 1..Len(pending) : MergeError(i)
        /\ \A f \in Fields :
            (touched'[f] = "true" /\ touched[f] # "true") =>
                \/ SetFieldTouched(f, TRUE)
                \/ \E i \in 1..Len(attempts) : SubmitValidated(i)
                \/ HandleBlur(f)
                \/ \E ev \in EventsOf(inputType[f]) : HandleChange(f, ev)]_vars

\* a value was set directly and an error set, and the field is still untouched
C10_Witness ==
    /\ values["a"] # initialValues["a"]
    /\ errors["a"] = "custom error"
    /\ touched["a"] = Absent
    /\ touched["b"] = "true"

\* C11: setFieldValue(f, v) stores exactly v, and a stored value changes only
\* by a change event of that field, a setFieldValue of that field or a
\* resetForm: no validation completion, blur, submit step, setFieldError or
\* setFieldTouched changes any stored value.
C11_DirectValueKept ==
    /\ [][(last'.op = "other" /\ touched' = touched /\ errors' = errors) =>
            \A f \in Fields, v \in DirectValues : values'[f] # v => ~SetFieldValue(f, v)]_vars
    /\ [][values' # values =>
            \/ last'.op = "resetForm"
            \/ \E f \in Fields :
                  /\ \A g \in Fields \ {f} : values'[g] = values[g]
                  /\ \/ \E v \in DirectValues : SetFieldValue(f, v)
                     \/ \E ev \in EventsOf(inputType[f]) : HandleChange(f, ev)]_vars

\* a value set directly (the field was never touched) is still stored after an
\* error was set, a field marked, a submit started and a validation completed
C11_Witness ==
    /\ values["b"] = Str("")
    /\ touched["b"] = Absent
    /\ touched["a"] = "false"
    /\ errors["a"] = "custom error"
    /\ errors["b"] = RequiredMsg("b")
    /\ isSubmitting
    /\ last.op = "mergeError"

\* C12: there is no sequence guard on field validations: a validation that
\* resolves merges its result into errors whichever validations of the same
\* field were issued after it, so one that was issued first and resolves last
\* overwrites the result of the later one and errors[f] is then the verdict for
\* a value that is no longer stored.
C12_NoSequenceGuard ==
    [][last'.op = "mergeError" =>
        \E i \in 1..Len(pending) :
            /\ pending' = RemoveAt(pending, i)
            /\ errors'[pending[i].field] = pending[i].error]_vars

\* every validation has resolved, the stored value of a is "x", which the rule
\* accepts, and errors.a is the verdict for the empty value stored before it;
\* b was never touched, so no submit attempt wrote errors since the last reset
C12_Witness ==
    /\ options = [validationSchema |-> "yup", validateOnChange |-> TRUE, validateOnBlur |-> TRUE]
    /\ last.op = "mergeError"
    /\ pending = <<>>
    /\ attempts = <<>>
    /\ values["a"] = Str("x")
    /\ errors["a"] = RequiredMsg("a")
    /\ touched["b"] = Absent

\* C13: the completion of a single-field validation of f, in any interleaving
\* with the other pending validations and handlers, changes at most errors[f]:
\* errors[g] for every other g, values, touched and isSubmitting are unchanged.
C13_CompletionFrame ==
    [][last'.op = "mergeError" =>
        /\ values' = values
        /\ touched' = touched
        /\ isSubmitting' = isSubmitting
        /\ \E i \in 1..Len(pending) :
              /\ pending' = RemoveAt(pending, i)
              /\ \A g \in Fields \ {pending[i].field} : errors'[g] = errors[g]]_vars

\* a validation of b completed while another one was in flight and after a
\* submit attempt threw: the error set on a, the marks and the flag are kept
C13_Witness ==
    /\ last.op = "mergeError"
    /\ errors["a"] = "custom error"
    /\ errors["b"] = RequiredMsg("b")
    /\ Len(pending) = 1
    /\ pending[1].field = "b"
    /\ touched["a"] = "false"
    /\ isSubmitting

\* C14: a submit invoked while an earlier attempt is in progress is neither
\* rejected nor queued: it starts an attempt of its own, which validates the
\* values of its own render and, when the result is empty, invokes the callback
\* whatever the other attempts are doing, so two invocations of the callback
\* can be in flight at once.
C14_SubmitReentrant ==
    /\ [][(last'.op = "other" /\ pending' = pending /\ values' = values) =>
            (HandleSubmit =>
                /\ Len(attempts') = Len(attempts) + 1
                /\ attempts'[Len(attempts')].pc = "validating"
                /\ attempts'[Len(attempts')].vals = values
                /\ \A i \in 1..Len(attempts) : attempts'[i] = attempts[i])]_vars
    /\ [][(last'.op = "submitValidated" /\ ~last'.invalid) =>
            /\ Len(attempts') = Len(attempts)
            /\ attempts'[last'.att].pc = "calling"
            /\ attempts[last'.att].pc = "validating"
            /\ \A j \in 1..Len(attempts) : j # last'.att => attempts'[j] = attempts[j]]_vars

\* two invocations of the callback are in flight, with different values
C14_Witness ==
    /\ Len(attempts) = 2
    /\ attempts[1].pc = "calling"
    /\ attempts[2].pc = "calling"
    /\ attempts[1].args # attempts[2].args
    /\ last.op = "submitValidated"

\* C15: whenever a submit attempt is in progress and the submit callback has
\* not used its setSubmitting or resetForm capability, isSubmitting is true,
\* also when attempts overlap: a state with an attempt in progress and the flag
\* false is entered only by a use of one of the two capabilities.
C15_SubmittingWhileInProgress ==
    [][(Len(attempts') > 0 /\ ~isSubmitting' /\ (isSubmitting \/ Len(attempts) = 0)) =>
        \/ last'.op = "resetForm"
        \/ \E i \in 1..Len(attempts) : CallbackSetSubmitting(i, FALSE)]_vars

\* C16: errors never holds a key whose value means no error: a single-field
\* validation that succeeds removes the key of the field, so the number of keys
\* of errors is the number of fields that have an error message.
C16_NoEmptyEntries ==
    /\ \A f \in Fields : errors[f] # Undef
    /\ Cardinality(Keys(errors)) = Cardinality({f \in Fields : errors[f] \notin {Absent, Undef}})

\* C17: when a function validator fails to compute during whole-form
\* validation, validateForm returns an empty map and nothing escapes: the submit
\* attempt sets errors to the empty map, passes the gate and invokes the callback.
C17_CrashPassesGate ==
    options.validationSchema = "fnThrows" =>
        /\ validateForm(options.validationSchema, values) = NoErrors
        /\ \A i \in 1..Len(attempts) : validateForm(options.validationSchema, attempts[i].vals) = NoErrors
        /\ last.op = "submitValidated" =>
              /\ ~last.invalid
              /\ ~last.ended
              /\ last.calls = 1
              /\ errors = NoErrors
              /\ last.att \in 1..Len(attempts)
              /\ attempts[last.att].pc = "calling"
              /\ attempts[last.att].args = attempts[last.att].vals

\* the callback is running with an empty required field: the validator crashed
C17_Witness ==
    /\ options.validationSchema = "fnThrows"
    /\ last.op = "submitValidated"
    /\ last.att \in 1..Len(attempts)
    /\ attempts[last.att].pc = "calling"
    /\ attempts[last.att].args["a"] = Str("")
    /\ errors = NoErrors

\* C18: the policies gate every field validation: with validateOnChange off a
\* validation is started only by onBlur, with validateOnBlur off only by
\* onChange or setFieldValue, with both off by nothing; with validateOnChange
\* off onChange still stores the value and marks the field, with validateOnBlur
\* off onBlur still marks the field, and both leave errors unchanged (so does
\* setFieldValue).
C18_PoliciesGate ==
    /\ [][(~options.validateOnChange /\ Len(pending') > Len(pending)) =>
            /\ Len(pending') = Len(pending) + 1
            /\ options.validateOnBlur
            /\ HandleBlur(Issued.field)]_vars
    /\ [][(~options.validateOnBlur /\ Len(pending') > Len(pending)) =>
            /\ Len(pending') = Len(pending) + 1
            /\ options.validateOnChange
            /\ \/ \E ev \in EventsOf(inputType[Issued.field]) : HandleChange(Issued.field, ev)
               \/ \E v \in DirectValues : SetFieldValue(Issued.field, v)]_vars
    /\ [][~options.validateOnChange =>
            \A f \in Fields :
                /\ \A ev \in EventsOf(inputType[f]) :
                      HandleChange(f, ev) =>
                          /\ values'[f] = Normalize(ev)
                          /\ touched'[f] = "true"
                          /\ errors' = errors
                          /\ pending' = pending
                /\ \A v \in DirectValues :
                      SetFieldValue(f, v) =>
                          /\ values'[f] = v
                          /\ errors' = errors
                          /\ pending' = pending]_vars
    /\ [][~options.validateOnBlur =>
            \A f \in Fields :
                HandleBlur(f) =>
                    /\ touched'[f] = "true"
                    /\ errors' = errors
                    /\ pending' = pending]_vars
    /\ []((~options.validateOnChange /\ ~options.validateOnBlur) => pending = <<>>)

\* both policies off: b was changed to the empty value and is marked, no
\* submit attempt ran since the last reset, and errors is still empty
C18_Witness ==
    /\ ~options.validateOnChange
    /\ ~options.validateOnBlur
    /\ options.validationSchema = "yup"
    /\ values["b"] = Str("")
    /\ touched["b"] = "true"
    /\ touched["a"] = Absent
    /\ errors = NoErrors
    /\ pending = <<>>

\* C19: in every submit attempt that invokes the callback, the values handed
\* to it are the bag the whole-form validation of that attempt evaluated and
\* accepted, also when a change is applied while the validation is pending.
C19_CallbackGetsValidated ==
    \A i \in 1..Len(attempts) :
        attempts[i].pc = "calling" =>
            /\ attempts[i].args = attempts[i].vals
            /\ GateOpen(validateForm(options.validationSchema, attempts[i].args))

\* the callback was invoked after the stored value of a was emptied during
\* the validation: it holds the validated bag, not the stored values
C19_Witness ==
    /\ options.validationSchema = "fn"
    /\ last.op = "submitValidated"
    /\ Len(attempts) = 1
    /\ attempts[1].pc = "calling"
    /\ attempts[1].args["a"] = Str("x")
    /\ values["a"] = Str("")

\* C20: resetForm does not cancel the field validations in flight: they stay
\* in flight across the reset, and one that resolves after it still merges its
\* result, so errors holds an entry after a reset with no operation invoked
\* since.
C20_ResetKeepsInFlight ==
    /\ [][last'.op = "resetForm" => pending' = pending /\ errors' = NoErrors]_vars
    /\ [][(last.op = "resetForm" /\ last'.op = "mergeError") =>
            \E i \in 1..Len(pending) :
                /\ pending' = RemoveAt(pending, i)
                /\ errors' = [NoErrors EXCEPT ![pending[i].field] = pending[i].error]]_vars

\* only blur validates here, and blur marks the field: a was blurred, the form
\* was reset (a is unmarked, the store is the initial one), and the validation
\* then resolved into errors
C20_Witness ==
    /\ options = [validationSchema |-> "yup", validateOnChange |-> FALSE, validateOnBlur |-> TRUE]
    /\ last.op = "mergeError"
    /\ errors["a"] = RequiredMsg("a")
    /\ values = initialValues
    /\ touched = NoTouched
    /\ ~isSubmitting
    /\ pending = <<>>
    /\ attempts = <<>>

====
